---- MODULE Spec2Model ----
(***************************************************************************)
(* Model of app.py, the Streamlit script of the Google activity dashboard. *)
(* One run of the script is one pass of pc from "sidebar" to "done" (or to *)
(* "aborted" when an exception escapes the script); Streamlit runs the     *)
(* script again whenever a widget changes.                                 *)
(***************************************************************************)
EXTENDS Integers, Sequences, FiniteSets, TLC

\* ------------------------------------------------------------------ bounds
\* longest uploaded list built from the entries of NarrowEntries
MaxLen == 2
\* longest uploaded list built from the entries of WideEntries
WideLen == 1

\* ------------------------------------------------------- program constants
CategorizeHead == 20
SummaryHead == 50
RawHead == 100
NBins == 24

\* ------------------------------------------------------------- JSON values
\* A value json.load can return: None, a str, a number, a list, a dict.
Null == [t |-> "null"]
Str(s) == [t |-> "str", s |-> s]
Num(n) == [t |-> "num", n |-> n]
List(v) == [t |-> "list", v |-> v]
Dict(d) == [t |-> "dict", d |-> d]

\* Python truthiness of a str (if api_key:, if text:)
Truthy(s) == Len(s) > 0

\* ---------------------------------------------------------- small helpers
HeadN(s, n) == SubSeq(s, 1, IF Len(s) < n THEN Len(s) ELSE n)

Range(s) == {s[i] : i \in 1..Len(s)}

SetMin(S) == CHOOSE x \in S : \A y \in S : x <= y
SetMax(S) == CHOOSE x \in S : \A y \in S : x >= y

RECURSIVE SetToSeq(_)
SetToSeq(S) == IF S = {} THEN <<>>
               ELSE LET x == CHOOSE x \in S : TRUE IN <<x>> \o SetToSeq(S \ {x})

\* --------------------------------------------------------------- the input
Keys == {"time", "header", "title", "titleUrl"}

TA == "2024-01-01T10:00:00Z"
TB == "2024-01-03T23:00:00Z"

\* the dicts that hold, for each key, either no such key or one of vals[key]
EntriesOver(vals) ==
    LET all == UNION {vals[k] : k \in Keys}
    IN  { Dict(f) : f \in UNION { { g \in [D -> all] : \A k \in D : g[k] \in vals[k] } :
                                  D \in SUBSET Keys } }

\* entries that always carry a time; lists of up to MaxLen of them
NarrowEntries ==
    { e \in EntriesOver([time |-> {Str("bad-date"), Str(TA), Str(TB)},
                         header |-> {Null, Str("Search")},
                         title |-> {Str("cats")},
                         titleUrl |-> {}]) : "time" \in DOMAIN e.d }

\* entries over every kind of value; lists of up to WideLen of them
WideEntries ==
    EntriesOver([time |-> {Null, Str(TA)},
                 header |-> {Null, Str("Search")},
                 title |-> {Null, Str(""), Str("cats"), Num(7)},
                 titleUrl |-> {Str("https://example.com/a")}])

SeqsUpTo(S, n) == UNION { [1..k -> S] : k \in 0..n }

\* what the uploaded file can hold
Documents ==
    { List(v) : v \in SeqsUpTo(NarrowEntries, MaxLen) \cup SeqsUpTo(WideEntries, WideLen) }
    \cup { List(<<Num(1)>>), List(<<Dict(<<>>), Str("x")>>),
           Dict(<<>>), Dict([a |-> Num(1)]), Num(5), Null }

NoFile == [state |-> "none"]
BadFile == [state |-> "invalid"]
JsonFile(v) == [state |-> "json", v |-> v]
Uploads == {NoFile, BadFile} \cup { JsonFile(v) : v \in Documents }

ApiKeys == {"", "sk-test"}

\* ------------------------------------------------------------------- state
VARIABLES
    pc,              \* the section of the script that runs next
    api_key,         \* st.sidebar.text_input of this run
    openai_api_key,  \* the module attribute openai.api_key ("" while unset)
    uploaded_file,   \* st.file_uploader of this run
    data,            \* json.load(uploaded_file)
    records,         \* the rows the extraction loop appends
    df,              \* the DataFrame, rows in index order
    metrics,         \* the three st.metric values, <<>> until shown
    product_count,   \* value_counts of the product column
    fig2,            \* the hour histogram's bars
    fig3,            \* the weekday histogram's bars
    text,            \* the word cloud's corpus
    calls,           \* the requests sent to the external service
    shown,           \* the raw data preview
    page,            \* the elements put on the page, in order
    exc              \* the exception that ended the run and the section that raised it

vars == <<pc, api_key, openai_api_key, uploaded_file, data, records, df, metrics,
          product_count, fig2, fig3, text, calls, shown, page, exc>>

\* ------------------------------------------------------------- extraction
Get_NoDefault(item, key, default) == IF key \in DOMAIN item.d THEN item.d[key] ELSE Null

\* item.get(key, default) of a dict
Get(item, key, default) == IF key \in DOMAIN item.d THEN item.d[key] ELSE default

\* item.get(key): None when the key is missing
GetOrNone(item, key) == Get(item, key, Null)

\* one pass of the loop body: [time, product, title, url]
Record(item) ==
    [time |-> GetOrNone(item, "time"),
     product |-> Get(item, "header", Str("Unknown")),
     title |-> Get(item, "title", Str("")),
     url |-> Get(item, "titleUrl", Str(""))]

\* what `for item in data` yields: the elements of a list, the keys of a
\* dict; a number or None is not iterable
Iterable(v) == v.t \in {"list", "dict"}
Items(v) == IF v.t = "list" THEN v.v
            ELSE [i \in 1..Cardinality(DOMAIN v.d) |-> Str(SetToSeq(DOMAIN v.d)[i])]

\* an item has .get only when it is a dict
HasGet(item) == item.t = "dict"

\* ---------------------------------------------------------- normalization
NaT == <<>>

\* the timestamps the model's inputs use, in hours since 2024-01-01T00:00Z
Instants == (TA :> 10) @@ (TB :> 71)

\* pd.to_datetime(value, errors="coerce") of one cell; the inputs hold a
\* str or None in this column
to_datetime(v) == IF v.t = "str" /\ v.s \in DOMAIN Instants THEN <<Instants[v.s]>>
                  ELSE NaT

day_names == <<"Monday", "Tuesday", "Wednesday", "Thursday", "Friday",
               "Saturday", "Sunday">>

\* .dt.date, .dt.hour, .dt.day_name() of one cell; 2024-01-01 is a Monday
dt_date(t) == IF t = NaT THEN NaT ELSE <<t[1] \div 24>>
dt_hour(t) == IF t = NaT THEN NaT ELSE <<t[1] % 24>>
dt_day_name(t) == IF t = NaT THEN NaT ELSE <<day_names[((t[1] \div 24) % 7) + 1]>>

\* pd.DataFrame(records, columns=...) with df["time"] = pd.to_datetime(...):
\* row i keeps the index of its record
Frame(recs) ==
    [i \in 1..Len(recs) |->
        [idx |-> i, time |-> to_datetime(recs[i].time), product |-> recs[i].product,
         title |-> recs[i].title, url |-> recs[i].url]]

IsValidTime(r) == r.time # NaT

DropNaT_Keep(rows) == rows

\* df.dropna(subset=["time"])
DropNaT(rows) == SelectSeq(rows, IsValidTime)

\* the three derived columns
WithDateParts(rows) ==
    [i \in 1..Len(rows) |->
        [idx |-> rows[i].idx, time |-> rows[i].time, product |-> rows[i].product,
         title |-> rows[i].title, url |-> rows[i].url,
         date |-> dt_date(rows[i].time), hour |-> dt_hour(rows[i].time),
         day |-> dt_day_name(rows[i].time)]]

\* -------------------------------------------------------------- aggregates
NotNull(v) == v # Null

\* the non-null cells of a column, in row order: Series.dropna()
Products(rows) == {rows[i].product : i \in 1..Len(rows)} \ {Null}

\* Series.nunique(): distinct values, nulls not counted
nunique(rows) == Cardinality(Products(rows))

\* the cells of the date column that are not NaT
Dates(rows) == {rows[i].date[1] : i \in {j \in 1..Len(rows) : rows[j].date # NaT}}

\* Series.min() and .max() skip the missing cells; nan (here <<>>) when none is left
date_min(rows) == IF Dates(rows) = {} THEN <<>> ELSE <<SetMin(Dates(rows))>>
date_max(rows) == IF Dates(rows) = {} THEN <<>> ELSE <<SetMax(Dates(rows))>>

\* Series.value_counts(): product -> count, nulls left out (the order of the
\* rows of the result is not modelled)
value_counts(rows) ==
    [p \in Products(rows) |-> Cardinality({i \in 1..Len(rows) : rows[i].product = p})]

Hours(rows) == {rows[i].hour[1] : i \in {j \in 1..Len(rows) : rows[j].hour # NaT}}

\* px.histogram(df, x="hour", nbins=24): the bins span the hours present and
\* nbins caps their number; one bin per hour fits the cap
HourHistogram(rows) ==
    IF Hours(rows) = {} THEN <<>>
    ELSE [h \in SetMin(Hours(rows))..SetMax(Hours(rows)) |->
            Cardinality({i \in 1..Len(rows) : rows[i].hour = <<h>>})]

DayIdx(rows) == {k \in 1..Len(day_names) :
                    \E i \in 1..Len(rows) : rows[i].day = <<day_names[k]>>}

\* px.histogram(df, x="day", category_orders=...): the categories in the given
\* order, the axis spanning from the first to the last one present
DayHistogram(rows) ==
    IF DayIdx(rows) = {} THEN <<>>
    ELSE [k \in 1..(SetMax(DayIdx(rows)) - SetMin(DayIdx(rows)) + 1) |->
            LET name == day_names[SetMin(DayIdx(rows)) + k - 1]
            IN  [day |-> name,
                 count |-> Cardinality({i \in 1..Len(rows) : rows[i].day = <<name>>})]]

\* ------------------------------------------------------------ text corpus
IsTitled(r) == NotNull(r.title)

\* df["title"].dropna().tolist(): the cells that are not None, in row order
TitleList(rows) ==
    LET kept == SelectSeq(rows, IsTitled) IN [i \in 1..Len(kept) |-> kept[i].title]

\* str.join raises TypeError on an item that is not a str
AllStr(titles) == \A i \in 1..Len(titles) : titles[i].t = "str"

RECURSIVE Join(_)
\* " ".join(titles)
Join(titles) == IF Len(titles) = 0 THEN ""
                ELSE IF Len(titles) = 1 THEN titles[1].s
                ELSE titles[1].s \o " " \o Join(Tail(titles))

RECURSIVE Spaces(_)
Spaces(n) == IF n = 0 THEN "" ELSE " " \o Spaces(n - 1)

ShouldDraw_Always(t) == TRUE

\* if text:
ShouldDraw(t) == Truthy(t)

\* WordCloud.generate raises ValueError when the text holds no word
HasWords(t) == t # Spaces(Len(t))

\* ---------------------------------------------------------------- insights
CredentialPresent_Global == Truthy(openai_api_key)

\* if api_key:
CredentialPresent == Truthy(api_key)

\* df["title"].dropna().head(20).tolist()
sample_titles(rows) == HeadN(TitleList(rows), CategorizeHead)

\* df[df["date"] == df["date"].max()].head(50)[["product", "title"]]
week_data(rows) ==
    LET latest == SelectSeq(rows, LAMBDA r : r.date # NaT /\ r.date = date_max(rows))
        top == HeadN(latest, SummaryHead)
    IN  [i \in 1..Len(top) |->
            [idx |-> top[i].idx, product |-> top[i].product, title |-> top[i].title]]

\* openai.chat.completions.create returns or raises
Outcomes == {"ok", "error"}

AfterCall_Uncaught(outcome, next) == IF outcome = "error" THEN "aborted" ELSE next

\* the except clause of a call: the section that follows runs either way
AfterCall(outcome, next) == next

\* ------------------------------------------------------------- the script
NoExc == [at |-> "", type |-> ""]

Raise(type) ==
    /\ pc' = "aborted"
    /\ exc' = [at |-> pc, type |-> type]

Blank ==
    /\ data = Null
    /\ records = <<>>
    /\ df = <<>>
    /\ metrics = <<>>
    /\ product_count = <<>>
    /\ fig2 = <<>>
    /\ fig3 = <<>>
    /\ text = ""
    /\ calls = <<>>
    /\ shown = <<>>
    /\ page = <<>>
    /\ exc = NoExc

Init ==
    /\ pc = "sidebar"
    /\ api_key \in ApiKeys
    /\ openai_api_key = ""
    /\ uploaded_file \in Uploads
    /\ Blank

\* lines 15-19: the key typed in the sidebar becomes openai.api_key
Sidebar ==
    /\ pc = "sidebar"
    /\ openai_api_key' = IF Truthy(api_key) THEN api_key ELSE openai_api_key
    /\ pc' = "upload"
    /\ UNCHANGED <<api_key, uploaded_file, data, records, df, metrics, product_count,
                   fig2, fig3, text, calls, shown, page, exc>>

\* lines 21-25 and 125-126: json.load of the upload, or the hint to upload
Upload ==
    /\ pc = "upload"
    /\ CASE uploaded_file.state = "none" ->
              /\ page' = Append(page, "info")
              /\ pc' = "done"
              /\ UNCHANGED <<data, exc>>
         [] uploaded_file.state = "invalid" ->
              /\ Raise("JSONDecodeError")
              /\ UNCHANGED <<data, page>>
         [] OTHER ->
              /\ data' = uploaded_file.v
              /\ pc' = "extract"
              /\ UNCHANGED <<page, exc>>
    /\ UNCHANGED <<api_key, openai_api_key, uploaded_file, records, df, metrics,
                   product_count, fig2, fig3, text, calls, shown>>

\* lines 27-33: one record per item
Extract ==
    /\ pc = "extract"
    /\ IF ~Iterable(data)
       THEN Raise("TypeError") /\ UNCHANGED records
       ELSE IF \E i \in 1..Len(Items(data)) : ~HasGet(Items(data)[i])
       THEN Raise("AttributeError") /\ UNCHANGED records
       ELSE /\ records' = [i \in 1..Len(Items(data)) |-> Record(Items(data)[i])]
            /\ pc' = "normalize"
            /\ UNCHANGED exc
    /\ UNCHANGED <<api_key, openai_api_key, uploaded_file, data, df, metrics,
                   product_count, fig2, fig3, text, calls, shown, page>>

\* lines 35-42: the frame, its parsed time, the rows without one dropped
Normalize ==
    /\ pc = "normalize"
    /\ df' = WithDateParts(DropNaT(Frame(records)))
    /\ pc' = "stats"
    /\ UNCHANGED <<api_key, openai_api_key, uploaded_file, data, records, metrics,
                   product_count, fig2, fig3, text, calls, shown, page, exc>>

\* lines 44-49
QuickStats ==
    /\ pc = "stats"
    /\ metrics' = <<[total |-> Len(df), unique |-> nunique(df),
                     date_range |-> <<date_min(df), date_max(df)>>]>>
    /\ page' = Append(page, "metrics")
    /\ pc' = "product"
    /\ UNCHANGED <<api_key, openai_api_key, uploaded_file, data, records, df,
                   product_count, fig2, fig3, text, calls, shown, exc>>

\* lines 51-58
ProductChart ==
    /\ pc = "product"
    /\ product_count' = value_counts(df)
    /\ page' = Append(page, "fig1")
    /\ pc' = "hour"
    /\ UNCHANGED <<api_key, openai_api_key, uploaded_file, data, records, df, metrics,
                   fig2, fig3, text, calls, shown, exc>>

\* lines 60-63
HourChart ==
    /\ pc = "hour"
    /\ fig2' = HourHistogram(df)
    /\ page' = Append(page, "fig2")
    /\ pc' = "day"
    /\ UNCHANGED <<api_key, openai_api_key, uploaded_file, data, records, df, metrics,
                   product_count, fig3, text, calls, shown, exc>>

\* lines 65-71
DayChart ==
    /\ pc = "day"
    /\ fig3' = DayHistogram(df)
    /\ page' = Append(page, "fig3")
    /\ pc' = "wordcloud"
    /\ UNCHANGED <<api_key, openai_api_key, uploaded_file, data, records, df, metrics,
                   product_count, fig2, text, calls, shown, exc>>

\* lines 73-81
WordCloudStep ==
    /\ pc = "wordcloud"
    /\ IF ~AllStr(TitleList(df))
       THEN Raise("TypeError") /\ UNCHANGED <<text, page>>
       ELSE /\ text' = Join(TitleList(df))
            /\ IF ~ShouldDraw(text')
               THEN pc' = "categorize" /\ UNCHANGED <<page, exc>>
               ELSE IF HasWords(text')
               THEN /\ page' = Append(page, "wordcloud")
                    /\ pc' = "categorize"
                    /\ UNCHANGED exc
               ELSE Raise("ValueError") /\ UNCHANGED page
    /\ UNCHANGED <<api_key, openai_api_key, uploaded_file, data, records, df, metrics,
                   product_count, fig2, fig3, calls, shown>>

\* lines 83-104
Categorize ==
    /\ pc = "categorize"
    /\ IF ~CredentialPresent
       THEN pc' = "summarize" /\ UNCHANGED <<calls, page>>
       ELSE \E outcome \in Outcomes :
              /\ calls' = Append(calls, [op |-> "categorize", key |-> openai_api_key,
                                         titles |-> sample_titles(df)])
              /\ page' = page \o <<"categorize",
                                   IF outcome = "ok" THEN "categorize.json"
                                   ELSE "categorize.error">>
              /\ pc' = AfterCall(outcome, "summarize")
    /\ UNCHANGED <<api_key, openai_api_key, uploaded_file, data, records, df, metrics,
                   product_count, fig2, fig3, text, shown, exc>>

\* lines 106-119
Summarize ==
    /\ pc = "summarize"
    /\ IF ~CredentialPresent
       THEN pc' = "raw" /\ UNCHANGED <<calls, page>>
       ELSE \E outcome \in Outcomes :
              /\ calls' = Append(calls, [op |-> "summarize", key |-> openai_api_key,
                                         rows |-> week_data(df)])
              /\ page' = page \o <<"summary",
                                   IF outcome = "ok" THEN "summary.text"
                                   ELSE "summary.error">>
              /\ pc' = AfterCall(outcome, "raw")
    /\ UNCHANGED <<api_key, openai_api_key, uploaded_file, data, records, df, metrics,
                   product_count, fig2, fig3, text, shown, exc>>

\* lines 121-123
RawData ==
    /\ pc = "raw"
    /\ shown' = HeadN(df, RawHead)
    /\ page' = Append(page, "raw")
    /\ pc' = "done"
    /\ UNCHANGED <<api_key, openai_api_key, uploaded_file, data, records, df, metrics,
                   product_count, fig2, fig3, text, calls, exc>>

\* the script runs again, top to bottom, when the key in the sidebar is
\* edited; openai.api_key is a module attribute and outlives the run
Rerun ==
    /\ pc \in {"done", "aborted"}
    /\ api_key' \in ApiKeys
    /\ pc' = "sidebar"
    /\ data' = Null
    /\ records' = <<>>
    /\ df' = <<>>
    /\ metrics' = <<>>
    /\ product_count' = <<>>
    /\ fig2' = <<>>
    /\ fig3' = <<>>
    /\ text' = ""
    /\ calls' = <<>>
    /\ shown' = <<>>
    /\ page' = <<>>
    /\ exc' = NoExc
    /\ UNCHANGED <<openai_api_key, uploaded_file>>

Next ==
    \/ Sidebar
    \/ Upload
    \/ Extract
    \/ Normalize
    \/ QuickStats
    \/ ProductChart
    \/ HourChart
    \/ DayChart
    \/ WordCloudStep
    \/ Categorize
    \/ Summarize
    \/ RawData
    \/ Rerun

Spec == Init /\ [][Next]_vars

\* ================================================================ claims
\* ------------------------------------------------ what the claims speak of
Sections == <<"sidebar", "upload", "extract", "normalize", "stats", "product", "hour",
              "day", "wordcloud", "categorize", "summarize", "raw", "done">>

Pos(section) == CHOOSE k \in 1..Len(Sections) : Sections[k] = section

\* the section the run is in, or the one that raised
Here == IF pc = "aborted" THEN exc.at ELSE pc

\* the section, one of those that follow the upload, has run to its end in
\* this run
Finished(section) ==
    /\ uploaded_file.state = "json"
    /\ Here \in Range(Sections)
    /\ Pos(Here) > Pos(section)

OnPage(element) == element \in Range(page)

\* the upload is a JSON list whose items are all key-value entries
WellFormed ==
    /\ uploaded_file.state = "json"
    /\ uploaded_file.v.t = "list"
    /\ \A i \in 1..Len(uploaded_file.v.v) : uploaded_file.v.v[i].t = "dict"

Input == uploaded_file.v.v
Entry(i) == Input[i].d

\* the calendar facts of the two timestamps, written down by hand
Calendar == (TA :> [date |-> 0, hour |-> 10, day |-> "Monday"]) @@
            (TB :> [date |-> 2, hour |-> 23, day |-> "Wednesday"])

Parses(i) == /\ "time" \in DOMAIN Entry(i)
             /\ Entry(i)["time"].t = "str"
             /\ Entry(i)["time"].s \in DOMAIN Calendar

ValidIdx == {i \in 1..Len(Input) : Parses(i)}
Cal(i) == Calendar[Entry(i)["time"].s]

RECURSIVE SumOver(_, _)
SumOver(f, S) == IF S = {} THEN 0
                 ELSE LET x == CHOOSE x \in S : TRUE IN f[x] + SumOver(f, S \ {x})

Total == metrics[1].total

\* the titles the valid entries carry, None excluded, in input order
ValidTitles ==
    LET sorted == [k \in 1..Cardinality(ValidIdx) |->
                     CHOOSE i \in ValidIdx : Cardinality({j \in ValidIdx : j < i}) = k - 1]
        all == [k \in 1..Len(sorted) |->
                  IF "title" \in DOMAIN Entry(sorted[k]) THEN Entry(sorted[k])["title"]
                  ELSE Str("")]
    IN  SelectSeq(all, NotNull)

\* C1: an entry whose time is missing, null or unparsable reaches nothing
\* downstream: the frame holds exactly the entries whose time parses, in input
\* order; the total is their number; the product, hour and weekday counts, the
\* corpus, both AI samples and the preview are made of them alone; and the
\* normalization never ends the run.
C1_Thm ==
    /\ exc.at # "normalize"
    /\ (WellFormed /\ Finished("normalize")) =>
         /\ {df[i].idx : i \in 1..Len(df)} = ValidIdx
         /\ \A i, j \in 1..Len(df) : i < j => df[i].idx < df[j].idx
         /\ \A i \in 1..Len(df) : df[i].time # NaT
         /\ metrics # <<>> => Total = Cardinality(ValidIdx)
         /\ \A p \in DOMAIN product_count :
               product_count[p] =
                   Cardinality({i \in ValidIdx :
                       IF "header" \in DOMAIN Entry(i) THEN Entry(i)["header"] = p
                       ELSE p = Str("Unknown")})
         /\ \A h \in DOMAIN fig2 :
               fig2[h] = Cardinality({i \in ValidIdx : Cal(i).hour = h})
         /\ \A k \in DOMAIN fig3 :
               fig3[k].count = Cardinality({i \in ValidIdx : Cal(i).day = fig3[k].day})
         /\ Finished("wordcloud") => text = Join(ValidTitles)
         /\ \A c \in DOMAIN calls :
               IF calls[c].op = "categorize"
               THEN calls[c].titles = HeadN(ValidTitles, CategorizeHead)
               ELSE \A r \in DOMAIN calls[c].rows : calls[c].rows[r].idx \in ValidIdx
         /\ \A r \in DOMAIN shown : shown[r].idx \in ValidIdx
         /\ Finished("raw") => Len(shown) = Cardinality(ValidIdx)

C1_Witness ==
    /\ pc = "done"
    /\ WellFormed
    /\ Len(Input) = 2
    /\ Cardinality(ValidIdx) = 1
    /\ Len(calls) = 2
    /\ OnPage("wordcloud")

\* C2: after normalization the per-product counts, the per-hour counts and the
\* per-weekday counts each sum to the total record count, entries whose header
\* is present but null included.
C2_Claim ==
    Finished("day") =>
        /\ SumOver(product_count, DOMAIN product_count) = Total
        /\ SumOver(fig2, DOMAIN fig2) = Total
        /\ SumOver([k \in DOMAIN fig3 |-> fig3[k].count], DOMAIN fig3) = Total

\* C3: a failure of the categorize call is caught where it is made and shown
\* as that operation's error: the summarize call is still made, the metrics
\* and charts stay as rendered, and the run goes on to the raw data preview;
\* a failure of the summarize call does not end the run either.
C3_Thm ==
    /\ exc.at \notin {"categorize", "summarize"}
    /\ OnPage("categorize.error") =>
         /\ pc \in {"summarize", "raw", "done"}
         /\ pc \in {"raw", "done"} => \E c \in DOMAIN calls : calls[c].op = "summarize"
         /\ \A e \in {"metrics", "fig1", "fig2", "fig3"} : OnPage(e)
         /\ product_count = value_counts(df)
         /\ fig2 = HourHistogram(df)
         /\ fig3 = DayHistogram(df)
         /\ pc = "done" => OnPage("raw")
    /\ OnPage("summary.error") =>
         /\ pc \in {"raw", "done"}
         /\ pc = "done" => OnPage("raw")

C3_Witness ==
    /\ pc = "done"
    /\ OnPage("categorize.error")
    /\ OnPage("summary.text")
    /\ OnPage("raw")
    /\ Len(df) > 0

\* C4: a call to the external service is made only when the credential of
\* this run is not empty; with an empty credential no call is made, neither
\* AI block is rendered and no error is shown.
C4_Thm ==
    /\ \A c \in DOMAIN calls : Truthy(api_key) /\ calls[c].key = api_key
    /\ ~Truthy(api_key) =>
         /\ calls = <<>>
         /\ \A e \in {"categorize", "categorize.json", "categorize.error",
                      "summary", "summary.text", "summary.error"} : ~OnPage(e)
         /\ pc # "aborted" \/ exc.at \notin {"categorize", "summarize"}

C4_Witness ==
    /\ pc = "done"
    /\ api_key = ""
    /\ openai_api_key # ""
    /\ Len(df) > 0
    /\ OnPage("raw")

\* C5: a malformed top-level document is the only thing that ends the run
\* early: every well-formed list of key-value entries runs through to the raw
\* data preview, and an upload that is not such a list ends the run before
\* any aggregate is computed.
C5_Claim ==
    /\ WellFormed => pc # "aborted"
    /\ (uploaded_file.state # "none" /\ ~WellFormed) => metrics = <<>>

\* C6: the weekday aggregate holds exactly the 7 days Monday to Sunday in
\* that order and the hour aggregate exactly the 24 hours 0 to 23, with a
\* zero for a day or an hour without activity.
C6_Claim ==
    Finished("day") =>
        /\ DOMAIN fig2 = 0..(NBins - 1)
        /\ [k \in DOMAIN fig3 |-> fig3[k].day] = day_names

\* C7: with no valid record (an empty list, or one whose timestamps all fail
\* to parse) the total is 0, the distinct product count is 0, the date range
\* is the empty marker, and no later section raises.
C7_Thm ==
    (WellFormed /\ ValidIdx = {}) =>
        /\ pc # "aborted"
        /\ metrics # <<>> =>
             /\ Total = 0
             /\ metrics[1].unique = 0
             /\ metrics[1].date_range = <<<<>>, <<>>>>
        /\ Finished("day") => product_count = <<>> /\ fig2 = <<>> /\ fig3 = <<>>

C7_Witness ==
    /\ pc = "done"
    /\ WellFormed
    /\ Len(Input) > 0
    /\ ValidIdx = {}
    /\ Len(calls) = 2
    /\ OnPage("raw")

\* C8: extraction never raises on a key-value entry and yields one record per
\* entry, in input order: a present field is copied as it is, a missing
\* header gives "Unknown", a missing title or titleUrl the empty string, a
\* missing time None.
C8_Thm ==
    WellFormed =>
        /\ exc.at # "extract"
        /\ Finished("extract") =>
             /\ Len(records) = Len(Input)
             /\ \A i \in 1..Len(Input) :
                  /\ records[i].time =
                       IF "time" \in DOMAIN Entry(i) THEN Entry(i)["time"] ELSE Null
                  /\ records[i].product =
                       IF "header" \in DOMAIN Entry(i) THEN Entry(i)["header"]
                       ELSE Str("Unknown")
                  /\ records[i].title =
                       IF "title" \in DOMAIN Entry(i) THEN Entry(i)["title"] ELSE Str("")
                  /\ records[i].url =
                       IF "titleUrl" \in DOMAIN Entry(i) THEN Entry(i)["titleUrl"]
                       ELSE Str("")

C8_Witness ==
    /\ pc = "normalize"
    /\ WellFormed
    /\ Len(Input) = 1
    /\ DOMAIN Entry(1) = {"title"}
    /\ records[1] = [time |-> Null, product |-> Str("Unknown"),
                     title |-> Entry(1)["title"], url |-> Str("")]

IsWord(v) == v.t = "str" /\ Truthy(v.s)

\* the titles of the frame that are not empty, in row order
NonEmptyTitles == SelectSeq([i \in 1..Len(df) |-> df[i].title], IsWord)

\* C9: the corpus is the non-empty titles, in record order, joined by single
\* spaces; when no record has a non-empty title it is the empty string and
\* the word cloud is neither drawn nor raising.
C9_Claim ==
    (\A i \in 1..Len(df) : df[i].title.t \in {"str", "null"}) =>
        /\ Finished("wordcloud") => text = Join(NonEmptyTitles)
        /\ NonEmptyTitles = <<>> =>
             /\ exc.at # "wordcloud"
             /\ ~OnPage("wordcloud")
             /\ text = ""

\* C10: the categorize call sends the titles of the first min(20, n) of the
\* n valid records that have a non-empty title; a record with an empty or
\* null title is never in the sample and takes none of the 20 places.
C10_Claim ==
    \A c \in DOMAIN calls :
        calls[c].op = "categorize" =>
            calls[c].titles = HeadN(NonEmptyTitles, CategorizeHead)

====
